---------------------------- MODULE Spec2Model ----------------------------
(***************************************************************************)
(* The SystemBuilder web component of src/assets/system-builder.js: the    *)
(* harness configurator's selection state, the chips and product cards it  *)
(* keeps in the page, the order summary's control and the add-to-cart      *)
(* submission (handleAddToCart) with its two awaited requests and its two  *)
(* revert timers.                                                          *)
(*                                                                         *)
(* A step of the model is one run of an event-loop task: a click handler   *)
(* run to its end, the continuation of handleAddToCart after an await, or  *)
(* a timer callback.  Product-card highlight classes are a projection of   *)
(* selectedProducts and are not kept as state.                             *)
(***************************************************************************)
EXTENDS Naturals, Integers, Sequences, FiniteSets

VARIABLES
  data,                \* this.data (constructor 20-25, loadData 37-51)
  activeHarnessModel,  \* this.activeHarnessModel
  activeAccessories,   \* this.activeAccessories
  selectedProducts,    \* this.selectedProducts, in property creation order
  modelChips,          \* harness-model chips carrying the --selected class
  accessoryChips,      \* harness-accessory chips carrying the --selected class
  hiddenChips,         \* harness-accessory chips with style.display = 'none'
  stepHidden,          \* [data-step="harness-accessories"].hidden
  modelGrid,           \* cards inside [data-harness-models-grid]
  accessoriesGrid,     \* card containers inside [data-harness-accessories-grid]
  button,              \* the [data-add-to-cart] control
  summary,             \* what updateSummary last wrote into [data-summary]
  subs,                \* handleAddToCart invocations suspended at an await
  timers,              \* pending setTimeout callbacks
  last                 \* history: the task that ran last, what it saw, the
                       \* run of card clicks so far, a chip clicked twice

vars == <<data, activeHarnessModel, activeAccessories, selectedProducts,
          modelChips, accessoryChips, hiddenChips, stepHidden, modelGrid,
          accessoriesGrid, button, summary, subs, timers, last>>

-----------------------------------------------------------------------------
(* Bounds of the model *)

\* the quantity-increase button is not offered beyond this quantity
MaxQuantity == 2
\* the user performs at most this many store operations while one
\* submission is suspended at an await, or while one timer pends
MaxBusyOps == 1
\* at most this many revert timers of the empty-selection rejection pend
MaxRejectTimers == 1
\* add requests the shop accepts in one run, where the run keeps count
MaxAccepted == 2

-----------------------------------------------------------------------------
(* Values *)

Null == "null"

\* A variant of the embedded JSON.  `id` stands for a Shopify variant id,
\* a number beyond the array-index range of property keys, so that
\* Object.entries(this.selectedProducts) lists the entries in the order
\* they were created.
Variant(id, price, available) ==
  [id |-> id, price |-> price, available |-> available]

\* The embedded JSON documents a widget is mounted with: two model chips, a
\* harness linked to M1 and one linked to M2, an accessory group linked to
\* M1 only, an accessory group with no filter, two block accessories.
Catalog ==
  [ harnessModels      |-> <<"M1", "M2">>,
    harnessTypes       |-> << [modelHandles |-> {"M1"},
                               variants |-> <<Variant(11, 5000, TRUE)>>],
                              [modelHandles |-> {"M2"},
                               variants |-> <<Variant(12, 4000, FALSE)>>] >>,
    harnessAccessories |-> << [handle |-> "G1", harnessTypeHandles |-> {"M1"},
                               variants |-> <<Variant(21, 1500, TRUE)>>],
                              [handle |-> "G2", harnessTypeHandles |-> {},
                               variants |-> <<Variant(22, 900, FALSE)>>] >>,
    accessories        |-> <<Variant(31, 725, TRUE), Variant(32, 0, TRUE)>> ]

\* A smaller page: the only harness is out of stock, so the selectable
\* products are one accessory of group G1 and one block accessory.
SmallCatalog ==
  [ harnessModels      |-> <<"M1", "M2">>,
    harnessTypes       |-> << [modelHandles |-> {"M1"},
                               variants |-> <<Variant(12, 4000, FALSE)>>] >>,
    harnessAccessories |-> << [handle |-> "G1", harnessTypeHandles |-> {"M1"},
                               variants |-> <<Variant(21, 1500, TRUE)>>],
                              [handle |-> "G2", harnessTypeHandles |-> {},
                               variants |-> <<>>] >>,
    accessories        |-> <<Variant(31, 725, TRUE)>> ]

Range(s) == {s[i] : i \in 1..Len(s)}

RECURSIVE Flatten(_)
Flatten(ss) == IF ss = <<>> THEN <<>> ELSE Head(ss) \o Flatten(Tail(ss))

ModelHandles == Range(data.harnessModels)
AccessoryHandles == {a.handle : a \in Range(data.harnessAccessories)}

\* a.harnessTypeHandles of the accessory with this handle (find, 167)
Accessory(handle) ==
  CHOOSE a \in Range(data.harnessAccessories) : a.handle = handle


-----------------------------------------------------------------------------
(* Text of the control *)

Label(text) == [text |-> text, count |-> 0]
NoText == Label("")
\* the text the markup gives the control before any script touches it
MarkupLabel == Label("Add All to Cart")
\* `Add to Cart (${itemCount} item${itemCount > 1 ? 's' : ''})` (516)
CountLabel(itemCount) ==
  [text |-> IF itemCount > 1 THEN "Add to Cart (n items)"
                             ELSE "Add to Cart (n item)",
   count |-> itemCount]

-----------------------------------------------------------------------------
(* The widget as a record, so that a handler is the composition of the     *)
(* functions it calls                                                      *)

Widget ==
  [ activeHarnessModel |-> activeHarnessModel,
    activeAccessories  |-> activeAccessories,
    selectedProducts   |-> selectedProducts,
    modelChips         |-> modelChips,
    accessoryChips     |-> accessoryChips,
    hiddenChips        |-> hiddenChips,
    stepHidden         |-> stepHidden,
    modelGrid          |-> modelGrid,
    accessoriesGrid    |-> accessoriesGrid,
    button             |-> button,
    summary            |-> summary,
    subs               |-> subs,
    timers             |-> timers ]

\* this.selectedProducts[variantId] is set
Has(products, variantId) == \E i \in 1..Len(products) : products[i].id = variantId

\* delete this.selectedProducts[variantId]
Delete(products, variantId) == SelectSeq(products, LAMBDA p : p.id # variantId)

RECURSIVE DeleteAll(_, _)
DeleteAll(products, ids) ==
  IF ids = <<>> THEN products
  ELSE DeleteAll(Delete(products, Head(ids)), Tail(ids))

\* product.quantity || 1
Qty(product) == IF product.quantity = 0 THEN 1 ELSE product.quantity

\* the card renderProductCard writes for a variant (413-454)
renderProductCard(variantData, productType) ==
  [ variantId   |-> variantData.id,
    productType |-> productType,
    available   |-> variantData.available # FALSE ]

RECURSIVE RenderAll(_, _)
RenderAll(variants, productType) ==
  IF variants = <<>> THEN <<>>
  ELSE <<renderProductCard(Head(variants), productType)>>
         \o RenderAll(Tail(variants), productType)

\* the cards displayBlockAccessories writes into [data-accessories-grid]
displayBlockAccessories == RenderAll(data.accessories, "accessory")

\* the new content of the model grid
displayHarnessModels(modelHandle) ==
  LET matchingTypes == SelectSeq(data.harnessTypes,
                                 LAMBDA ht : modelHandle \in ht.modelHandles)
      allVariants == Flatten([i \in 1..Len(matchingTypes) |->
                                matchingTypes[i].variants])
  IN  RenderAll(allVariants, "harness-model")

\* the item count updateSummary computes (496-506): an entry whose price is
\* falsy is skipped
RECURSIVE ItemCount(_)
ItemCount(products) ==
  IF products = <<>> THEN 0
  ELSE (IF Head(products).price # 0 THEN Qty(Head(products)) ELSE 0)
       + ItemCount(Tail(products))

\* the total with every entry counted once, whatever its quantity
RECURSIVE TotalOfUnits(_)
TotalOfUnits(products) ==
  IF products = <<>> THEN 0
  ELSE Head(products).price + TotalOfUnits(Tail(products))

\* the total updateSummary computes (496-506)
RECURSIVE Total(_)
Total(products) ==
  IF products = <<>> THEN 0
  ELSE (IF Head(products).price # 0
          THEN Head(products).price * Qty(Head(products)) ELSE 0)
       + Total(Tail(products))

\* formatMoney (695-699) without a Shopify formatter: `$${(cents /
\* 100).toFixed(2)}`, kept as the two numbers the text shows
formatMoney(cents) == [dollars |-> cents \div 100, cents |-> cents % 100]

OfType(products, productType) ==
  SelectSeq(products, LAMBDA p : p.productType = productType)

\* a summary that lists the entries as the store holds them, ungrouped
SummaryOrderOfStore(products) == products

\* the order in which the summary lists the entries (476-493)
SummaryOrder(products) ==
  OfType(products, "harness-model")
    \o OfType(products, "harness-accessory")
    \o OfType(products, "accessory")

\* the rows createSummaryItemHtml writes (525-551): the id the row's
\* buttons carry, the quantity and the line price it shows
SummaryItems(products) ==
  LET listed == SummaryOrder(products)
  IN  [i \in 1..Len(listed) |->
         [variantId |-> listed[i].id,
          quantity  |-> Qty(listed[i]),
          price     |-> formatMoney(listed[i].price * Qty(listed[i]))]]

\* updateSummary (459-519): the empty state and the footer, the rows, the
\* total, the text of the control
updateSummary(w) ==
  LET baseText == IF w.button.originalText # NoText
                    THEN w.button.originalText ELSE w.button.textContent
      itemCount == ItemCount(w.selectedProducts)
      hasSelectedProducts == Len(w.selectedProducts) > 0
  IN  [w EXCEPT !.summary = [emptyHidden  |-> hasSelectedProducts,
                             footerHidden |-> ~hasSelectedProducts,
                             items        |-> SummaryItems(w.selectedProducts),
                             total        |-> formatMoney(Total(w.selectedProducts))],
                !.button.originalText = baseText,
                !.button.textContent =
                   IF itemCount > 0 THEN CountLabel(itemCount) ELSE baseText]

\* ids of the cards in the containers of one accessory group
GroupCardIds(grid, handle) ==
  LET own == SelectSeq(grid, LAMBDA c : c.group = handle)
  IN  [i \in 1..Len(own) |-> own[i].card.variantId]

\* removeAccessoryCards with the card query not scoped to the group's
\* containers: it takes every product card of the widget
removeCardsOfAnyGrid(w, handle) ==
  [w EXCEPT !.selectedProducts =
               SelectSeq(@, LAMBDA p :
                 /\ \A c \in Range(w.modelGrid) : c.variantId # p.id
                 /\ \A c \in Range(w.accessoriesGrid) : c.card.variantId # p.id
                 /\ \A c \in Range(displayBlockAccessories) : c.variantId # p.id),
            !.accessoriesGrid = SelectSeq(@, LAMBDA c : c.group # handle)]

removeAccessoryCards(w, handle) ==
  [w EXCEPT !.selectedProducts =
               DeleteAll(@, GroupCardIds(w.accessoriesGrid, handle)),
            !.accessoriesGrid = SelectSeq(@, LAMBDA c : c.group # handle)]

addAccessoryCards(w, handle) ==
  IF ~\E a \in Range(data.harnessAccessories) : a.handle = handle
    THEN w
    ELSE [w EXCEPT !.accessoriesGrid =
            @ \o [i \in 1..Len(Accessory(handle).variants) |->
                   [group |-> handle,
                    card |-> renderProductCard(Accessory(handle).variants[i],
                                               "harness-accessory")]]]

\* this.activeAccessories.forEach(handle => this.removeAccessoryCards(handle))
RECURSIVE RemoveEach(_, _)
RemoveEach(w, handles) ==
  IF handles = {} THEN w
  ELSE LET h == CHOOSE x \in handles : TRUE
       IN  RemoveEach(removeAccessoryCards(w, h), handles \ {h})

\* isLinked with the filter ignored
isLinkedAlways(accessory, model) == TRUE

\* accessory.harnessTypeHandles is unset or empty, or includes the model
isLinked(accessory, model) ==
  \/ accessory.harnessTypeHandles = {}
  \/ model \in accessory.harnessTypeHandles

\* one turn of the chips.forEach of updateAccessoriesVisibility (165-183)
VisitChip(w, handle) ==
  IF ~\E a \in Range(data.harnessAccessories) : a.handle = handle THEN w
  ELSE LET linked == isLinked(Accessory(handle), w.activeHarnessModel)
           shown  == [w EXCEPT !.hiddenChips =
                        IF linked THEN @ \ {handle} ELSE @ \cup {handle}]
       IN  IF ~linked /\ handle \in w.accessoryChips
             THEN removeAccessoryCards(
                    [shown EXCEPT !.accessoryChips = @ \ {handle},
                                  !.activeAccessories = @ \ {handle}],
                    handle)
             ELSE shown

RECURSIVE VisitChips(_, _)
VisitChips(w, handles) ==
  IF handles = <<>> THEN w
  ELSE VisitChips(VisitChip(w, Head(handles)), Tail(handles))

\* the accessory chips of the page, one per accessory of the snapshot
AccessoryChipValues ==
  [i \in 1..Len(data.harnessAccessories) |-> data.harnessAccessories[i].handle]

\* updateAccessoriesVisibility without the early return of 156-159
updateAccessoriesVisibilityFiltering(w) ==
  VisitChips([w EXCEPT !.stepHidden = FALSE], AccessoryChipValues)

\* 152-184
updateAccessoriesVisibility(w) ==
  IF w.activeHarnessModel = Null
    THEN [w EXCEPT !.stepHidden = TRUE]
    ELSE VisitChips([w EXCEPT !.stepHidden = FALSE], AccessoryChipValues)

-----------------------------------------------------------------------------
(* Click handlers, as functions of the widget *)

\* ids of the cards now in the model grid (217-218)
ModelGridIds(w) == [i \in 1..Len(w.modelGrid) |-> w.modelGrid[i].variantId]

\* ClearAccessories without the forEach that removes the cards
ClearAccessoriesKeepingEntries(w) ==
  [w EXCEPT !.activeAccessories = {}, !.accessoryChips = {}]

\* ClearAccessories that leaves the accessory chips marked
ClearAccessoriesKeepingMarks(w) ==
  [RemoveEach(w, w.activeAccessories) EXCEPT !.activeAccessories = {}]

\* 230-236 and 245-250: drop the cards and entries of every active
\* accessory, empty the set, unmark every accessory chip
ClearAccessories(w) ==
  [RemoveEach(w, w.activeAccessories) EXCEPT !.activeAccessories = {},
                                             !.accessoryChips = {}]

\* handleHarnessModelChipClick without the loop of 209-212 that takes the
\* selected class off every model chip
handleHarnessModelChipClickKeepingChips(w, value) ==
  LET wasSelected == value \in w.modelChips
      cleared == [w EXCEPT !.selectedProducts = DeleteAll(@, ModelGridIds(w))]
      changed ==
        IF wasSelected
          THEN ClearAccessories([cleared EXCEPT !.activeHarnessModel = Null,
                                                !.modelGrid = <<>>])
          ELSE ClearAccessories([cleared EXCEPT
                                   !.modelChips = @ \cup {value},
                                   !.activeHarnessModel = value,
                                   !.modelGrid = displayHarnessModels(value)])
  IN  updateAccessoriesVisibility(changed)

\* handleHarnessModelChipClick without the wasSelected branch: a click on
\* the selected chip selects it again
handleHarnessModelChipClickSelecting(w, value) ==
  LET cleared == [w EXCEPT !.modelChips = {},
                           !.selectedProducts = DeleteAll(@, ModelGridIds(w))]
  IN  updateAccessoriesVisibility(
        ClearAccessories([cleared EXCEPT
                            !.modelChips = {value},
                            !.activeHarnessModel = value,
                            !.modelGrid = displayHarnessModels(value)]))

\* 205-254
handleHarnessModelChipClick(w, value) ==
  LET wasSelected == value \in w.modelChips
      cleared == [w EXCEPT !.modelChips = {},
                           !.selectedProducts = DeleteAll(@, ModelGridIds(w))]
      changed ==
        IF wasSelected
          THEN ClearAccessories([cleared EXCEPT !.activeHarnessModel = Null,
                                                !.modelGrid = <<>>])
          ELSE ClearAccessories([cleared EXCEPT
                                   !.modelChips = {value},
                                   !.activeHarnessModel = value,
                                   !.modelGrid = displayHarnessModels(value)])
  IN  updateAccessoriesVisibility(changed)

\* handleAccessoryChipClick whose deselect branch leaves the cards and the
\* entries of the group alone
handleAccessoryChipClickKeepingCards(w, value) ==
  IF value \in w.accessoryChips
    THEN [w EXCEPT !.accessoryChips = @ \ {value},
                   !.activeAccessories = @ \ {value}]
    ELSE addAccessoryCards(
           [w EXCEPT !.accessoryChips = @ \cup {value},
                     !.activeAccessories = @ \cup {value}], value)

\* 259-273
handleAccessoryChipClick(w, value) ==
  IF value \in w.accessoryChips
    THEN removeAccessoryCards(
           [w EXCEPT !.accessoryChips = @ \ {value},
                     !.activeAccessories = @ \ {value}], value)
    ELSE addAccessoryCards(
           [w EXCEPT !.accessoryChips = @ \cup {value},
                     !.activeAccessories = @ \cup {value}], value)

\* handleChipClick (189-200): dispatch on the chip's field, then updateSummary
handleChipClick(w, field, value) ==
  updateSummary(
    IF field = "harness-model" THEN handleHarnessModelChipClick(w, value)
    ELSE IF field = "harness-accessory" THEN handleAccessoryChipClick(w, value)
    ELSE w)

\* the variants handleProductCardClick searches for a product type (338-350)
Candidates(productType) ==
  IF productType = "harness-model"
    THEN Flatten([i \in 1..Len(data.harnessTypes) |->
                    data.harnessTypes[i].variants])
  ELSE IF productType = "harness-accessory"
    THEN Flatten([i \in 1..Len(data.harnessAccessories) |->
                    data.harnessAccessories[i].variants])
  ELSE IF productType = "accessory" THEN data.accessories
  ELSE <<>>

\* { ...productData, productType, quantity: 1 }
Entry(productData, productType) ==
  [ id          |-> productData.id,
    price       |-> productData.price,
    available   |-> productData.available,
    productType |-> productType,
    quantity    |-> 1 ]

\* handleProductCardClick without the isAvailable return of 328-329
handleProductCardClickAnyStock(w, card) ==
  LET found == SelectSeq(Candidates(card.productType),
                         LAMBDA v : v.id = card.variantId)
  IN  updateSummary(
        IF Has(w.selectedProducts, card.variantId)
          THEN [w EXCEPT !.selectedProducts = Delete(@, card.variantId)]
        ELSE IF found # <<>>
          THEN [w EXCEPT !.selectedProducts =
                  Append(@, Entry(Head(found), card.productType))]
        ELSE w)

\* handleProductCardClick that never deselects
handleProductCardClickAddOnly(w, card) ==
  IF ~card.available THEN w
  ELSE LET found == SelectSeq(Candidates(card.productType),
                              LAMBDA v : v.id = card.variantId)
       IN  updateSummary(
             IF ~Has(w.selectedProducts, card.variantId) /\ found # <<>>
               THEN [w EXCEPT !.selectedProducts =
                       Append(@, Entry(Head(found), card.productType))]
               ELSE w)

\* 327-368
handleProductCardClick(w, card) ==
  IF ~card.available THEN w
  ELSE LET found == SelectSeq(Candidates(card.productType),
                              LAMBDA v : v.id = card.variantId)
           toggled ==
             IF Has(w.selectedProducts, card.variantId)
               THEN [w EXCEPT !.selectedProducts = Delete(@, card.variantId)]
             ELSE IF found # <<>>
               THEN [w EXCEPT !.selectedProducts =
                       Append(@, Entry(Head(found), card.productType))]
             ELSE w
       IN  updateSummary(toggled)

\* handleRemoveFromSummary that empties the store
handleRemoveFromSummaryOfAll(w, variantId) ==
  IF ~Has(w.selectedProducts, variantId) THEN w
  ELSE updateSummary([w EXCEPT !.selectedProducts = <<>>])

\* 373-385
handleRemoveFromSummary(w, variantId) ==
  IF ~Has(w.selectedProducts, variantId) THEN w
  ELSE updateSummary([w EXCEPT !.selectedProducts = Delete(@, variantId)])

\* handleQuantityChange that stores the new quantity whatever it is
handleQuantityChangeStoring(w, variantId, delta) ==
  IF ~Has(w.selectedProducts, variantId) THEN w
  ELSE LET i == CHOOSE k \in 1..Len(w.selectedProducts) :
                   w.selectedProducts[k].id = variantId
       IN  updateSummary(
             [w EXCEPT !.selectedProducts[i].quantity =
                         Qty(w.selectedProducts[i]) + delta])

\* handleQuantityChange that deletes the entry only below zero
handleQuantityChangeBelowZero(w, variantId, delta) ==
  IF ~Has(w.selectedProducts, variantId) THEN w
  ELSE LET i == CHOOSE k \in 1..Len(w.selectedProducts) :
                   w.selectedProducts[k].id = variantId
           newQuantity == Qty(w.selectedProducts[i]) + delta
       IN  updateSummary(
             IF newQuantity < 0
               THEN [w EXCEPT !.selectedProducts = Delete(@, variantId)]
               ELSE [w EXCEPT !.selectedProducts[i].quantity = newQuantity])

\* 390-408
handleQuantityChange(w, variantId, delta) ==
  IF ~Has(w.selectedProducts, variantId) THEN w
  ELSE LET i == CHOOSE k \in 1..Len(w.selectedProducts) :
                   w.selectedProducts[k].id = variantId
           newQuantity == Qty(w.selectedProducts[i]) + delta
       IN  updateSummary(
             IF newQuantity <= 0
               THEN [w EXCEPT !.selectedProducts = Delete(@, variantId)]
               ELSE [w EXCEPT !.selectedProducts[i].quantity = newQuantity])

\* clearAllSelections that leaves this.selectedProducts alone
clearNothing(w) == updateSummary(w)

clearAllSelections(w) == updateSummary([w EXCEPT !.selectedProducts = <<>>])

-----------------------------------------------------------------------------
(* handleAddToCart (570-667) *)

\* A string the failure path inspects: its text, its length, and which of
\* the three stock phrases its lower-cased text includes.
Message(text, length, phrases) ==
  [text |-> text, length |-> length, phrases |-> phrases]

NoMessage == Message("", 0, {})

\* description/message fields a non-success response may carry
ErrorFields ==
  { NoMessage,
    Message("Cart Error", 10, {}),
    Message("Variant not available due to inventory", 38,
            {"not available", "inventory"}) }

\* what an awaited call can settle with
NetworkError == [kind |-> "rejected", ok |-> FALSE,
                 message |-> Message("Failed to fetch", 15, {}), cart |-> 0]
ParseError   == [kind |-> "unparsable", ok |-> FALSE,
                 message |-> Message("Unexpected token < in JSON at position 0",
                                     40, {}), cart |-> 0]
Response(ok, errorMessage, cart) ==
  [kind |-> "parsed", ok |-> ok, message |-> errorMessage, cart |-> cart]

\* item_count values the cart read may return
Carts == {1, 2}

AddOutcomes ==
  {NetworkError, ParseError, Response(TRUE, NoMessage, 0)}
    \cup {Response(FALSE, m, 0) : m \in ErrorFields}

CartOutcomes ==
  {NetworkError, ParseError} \cup {Response(TRUE, NoMessage, c) : c \in Carts}

\* Items that sends every entry with quantity 1
ItemsOfOne(products) ==
  [i \in 1..Len(products) |-> [id |-> products[i].id, quantity |-> 1]]

\* the items array built from Object.entries(this.selectedProducts) (571-577)
RECURSIVE Items(_)
Items(products) ==
  IF products = <<>> THEN <<>>
  ELSE (IF Head(products).id # 0
          THEN <<[id |-> Head(products).id, quantity |-> Qty(Head(products))]>>
          ELSE <<>>)
       \o Items(Tail(products))

\* 587-590 without button.disabled = true
BusyNotDisabled(b) ==
  [b EXCEPT !.originalText = b.textContent,
            !.textContent = Label("Adding...")]

\* 587-590
Busy(b) ==
  [b EXCEPT !.disabled = TRUE,
            !.originalText = b.textContent,
            !.textContent = Label("Adding...")]

\* the Error thrown on a response that is not ok (614-622)
Thrown(errorMessage) ==
  IF errorMessage.phrases # {}
    THEN Message("out_of_stock", 12, {})
  ELSE IF errorMessage # NoMessage THEN errorMessage
  ELSE Message("Failed to add to cart", 21, {})

\* ErrorText without the length check of 657
ErrorTextOfAnyLength(error) ==
  IF error.text = "out_of_stock" THEN Label("Some items are out of stock")
  ELSE IF error # NoMessage THEN Label(error.text)
  ELSE Label("Error - Try Again")

\* the text the catch block shows for an error (654-659)
ErrorText(error) ==
  IF error.text = "out_of_stock" THEN Label("Some items are out of stock")
  ELSE IF error # NoMessage /\ error.length <= 30 THEN Label(error.text)
  ELSE Label("Error - Try Again")

RejectedDelay == 2000
FailedDelay == 2500

Timer(kind, delay, originalText) ==
  [kind |-> kind, delay |-> delay, originalText |-> originalText, busyOps |-> 0]

\* What a task did to the outside: requests sent, events dispatched and
\* timers set, in the order it did them.  `seen` is this.selectedProducts
\* at that moment.
Effect(kind, items, cart, delay, seen) ==
  [kind |-> kind, items |-> items, cart |-> cart, delay |-> delay, seen |-> seen]

RemoveAt(s, i) == [k \in 1..(Len(s) - 1) |-> IF k < i THEN s[k] ELSE s[k + 1]]

\* 579-585: nothing to send
Rejection(w) ==
  [w   |-> [w EXCEPT !.button.textContent = Label("Select products first"),
                     !.timers = Append(@, Timer("rejected", RejectedDelay,
                                                NoText))],
   out |-> <<Effect("setTimeout", <<>>, 0, RejectedDelay, w.selectedProducts)>>]

\* 587-610: the control goes busy and the add request is sent; the
\* invocation is suspended at its first await
Submission(w, items) ==
  [w   |-> [w EXCEPT !.button = Busy(@),
                     !.subs = Append(@, [pc |-> "add",
                                         originalText |-> w.button.textContent,
                                         items |-> items,
                                         busyOps |-> 0])],
   out |-> <<Effect("POST cart/add.js", items, 0, 0, w.selectedProducts)>>]

\* handleAddToCart without the items.length === 0 return
handleAddToCartUnguarded(w) == Submission(w, Items(w.selectedProducts))

\* the click on the control, up to the return or the first await
handleAddToCart(w) ==
  IF Len(Items(w.selectedProducts)) = 0
    THEN Rejection(w)
    ELSE Submission(w, Items(w.selectedProducts))

\* a catch block that also clears the selections
CaughtClearing(w, i, error) ==
  [w   |-> [clearAllSelections(w) EXCEPT
              !.button.textContent = ErrorText(error),
              !.subs = RemoveAt(@, i),
              !.timers = Append(@, Timer("failed", FailedDelay,
                                         w.subs[i].originalText))],
   out |-> <<Effect("setTimeout", <<>>, 0, FailedDelay, w.selectedProducts)>>]

\* the catch block (651-666) of invocation i
Caught(w, i, error) ==
  [w   |-> [w EXCEPT !.button.textContent = ErrorText(error),
                     !.subs = RemoveAt(@, i),
                     !.timers = Append(@, Timer("failed", FailedDelay,
                                                w.subs[i].originalText))],
   out |-> <<Effect("setTimeout", <<>>, 0, FailedDelay, w.selectedProducts)>>]

\* AddSettled without the response.ok check
AddSettledUnchecked(w, i, outcome) ==
  IF outcome.kind # "parsed" THEN Caught(w, i, outcome.message)
  ELSE [w   |-> [w EXCEPT !.subs[i].pc = "cart"],
        out |-> <<Effect("GET cart.js", <<>>, 0, 0, w.selectedProducts)>>]

\* invocation i resumes with the outcome of fetch(cart/add.js) and of
\* response.json() (600-624)
AddSettled(w, i, outcome) ==
  IF outcome.kind # "parsed" THEN Caught(w, i, outcome.message)
  ELSE IF ~outcome.ok THEN Caught(w, i, Thrown(outcome.message))
  ELSE [w   |-> [w EXCEPT !.subs[i].pc = "cart"],
        out |-> <<Effect("GET cart.js", <<>>, 0, 0, w.selectedProducts)>>]

\* Succeeded that leaves the control disabled
SucceededStillDisabled(w, i, cart) ==
  [w   |-> [clearAllSelections(w) EXCEPT
              !.button.textContent = w.subs[i].originalText,
              !.subs = RemoveAt(@, i)],
   out |-> <<Effect("cart:update", <<>>, cart, 0, w.selectedProducts)>>]

\* Succeeded that clears the selections before it dispatches the event
SucceededClearFirst(w, i, cart) ==
  [w   |-> [clearAllSelections(w) EXCEPT
              !.button.textContent = w.subs[i].originalText,
              !.button.disabled = FALSE,
              !.subs = RemoveAt(@, i)],
   out |-> <<Effect("cart:update", <<>>, cart, 0,
                    clearAllSelections(w).selectedProducts)>>]

\* 629-649: the cart count, the cart:update event, the clear, the restore
Succeeded(w, i, cart) ==
  [w   |-> [clearAllSelections(w) EXCEPT
              !.button.textContent = w.subs[i].originalText,
              !.button.disabled = FALSE,
              !.subs = RemoveAt(@, i)],
   out |-> <<Effect("cart:update", <<>>, cart, 0, w.selectedProducts)>>]

\* CartSettled with the cart read outside the try block: a fault ends the
\* invocation and nothing else happens
CartSettledUncaught(w, i, outcome) ==
  IF outcome.kind # "parsed"
    THEN [w |-> [w EXCEPT !.subs = RemoveAt(@, i)], out |-> <<>>]
    ELSE Succeeded(w, i, outcome.cart)

\* invocation i resumes with the outcome of fetch(cart.js) and of
\* cartResponse.json() (624-649); cartResponse.ok is not looked at
CartSettled(w, i, outcome) ==
  IF outcome.kind # "parsed" THEN Caught(w, i, outcome.message)
  ELSE Succeeded(w, i, outcome.cart)

\* the callback of timer i (581-583, 662-665)
TimerFired(w, i) ==
  [w   |-> IF w.timers[i].kind = "rejected"
             THEN [w EXCEPT !.button.textContent =
                              IF w.button.originalText # NoText
                                THEN w.button.originalText
                                ELSE Label("Add All to Cart"),
                            !.timers = RemoveAt(@, i)]
             ELSE [w EXCEPT !.button.textContent = w.timers[i].originalText,
                            !.button.disabled = FALSE,
                            !.timers = RemoveAt(@, i)],
   out |-> <<>>]

-----------------------------------------------------------------------------
(* The state machine *)

Arg(value, id, delta, outcome) ==
  [value |-> value, id |-> id, delta |-> delta, outcome |-> outcome]

NoOutcome == [kind |-> "", ok |-> FALSE, message |-> NoMessage, cart |-> 0]
NoArg == Arg("", 0, 0, NoOutcome)

\* what `last` keeps of the state a task started in
Store ==
  [ activeHarnessModel |-> activeHarnessModel,
    activeAccessories  |-> activeAccessories,
    selectedProducts   |-> selectedProducts,
    button             |-> button ]

\* the product cards now in the page
Cards ==
  Range(modelGrid)
    \cup (IF stepHidden THEN {} ELSE {c.card : c \in Range(accessoriesGrid)})
    \cup Range(displayBlockAccessories)

\* History of the run of product-card clicks since the widget was mounted.
\* While only chips have been clicked the phase is "setup"; while, after
\* that, only cards in stock have been clicked it is "toggling" and `odd`
\* holds the variant ids clicked an odd number of times; any other task
\* ends the run.
NoRun == [phase |-> "over", odd |-> {}]

ToggleRun(op, arg) ==
  IF last.run.phase = "setup" /\ op \in {"selectModel", "toggleAccessoryGroup"}
    THEN last.run
  ELSE IF /\ last.run.phase # "over"
          /\ op = "toggleEntry"
          /\ \E card \in Cards : card.variantId = arg.id /\ card.available
    THEN [phase |-> "toggling",
          odd   |-> IF arg.id \in last.run.odd
                      THEN last.run.odd \ {arg.id}
                      ELSE last.run.odd \cup {arg.id}]
  ELSE NoRun

\* History of a chip clicked twice in a row: when the task is a click on
\* the chip the task before it clicked, `pre` is the store before the first
\* of the two clicks.
NoTwice ==
  [on |-> FALSE,
   pre |-> [activeHarnessModel |-> Null, activeAccessories |-> {},
            selectedProducts |-> <<>>]]

Twice(op, arg) ==
  IF op \in {"selectModel", "toggleAccessoryGroup"}
       /\ last.op = op /\ last.arg = arg
    THEN [on |-> TRUE,
          pre |-> [activeHarnessModel |-> last.pre.activeHarnessModel,
                   activeAccessories |-> last.pre.activeAccessories,
                   selectedProducts |-> last.pre.selectedProducts]]
    ELSE NoTwice

\* the task's result becomes the state; `last` remembers the task
\* What the shop has done with the run's submissions, kept only by the
\* runs that ask for it: `adds` are the payloads of the add requests it
\* answered with success, `done` the payloads of the submissions for which
\* the widget dispatched cart:update, both in the order they happened.
NoAccepted == [on |-> FALSE, adds |-> <<>>, done |-> <<>>]

Accepted(op, arg, out) ==
  IF ~last.accepted.on THEN NoAccepted
  ELSE [on   |-> TRUE,
        adds |-> IF op = "addSettled" /\ arg.outcome.kind = "parsed"
                      /\ arg.outcome.ok
                   THEN Append(last.accepted.adds, subs[arg.id].items)
                   ELSE last.accepted.adds,
        done |-> IF \E k \in 1..Len(out) : out[k].kind = "cart:update"
                   THEN Append(last.accepted.done, subs[arg.id].items)
                   ELSE last.accepted.done]

Ran(op, arg, result) ==
  /\ activeHarnessModel' = result.w.activeHarnessModel
  /\ activeAccessories' = result.w.activeAccessories
  /\ selectedProducts' = result.w.selectedProducts
  /\ modelChips' = result.w.modelChips
  /\ accessoryChips' = result.w.accessoryChips
  /\ hiddenChips' = result.w.hiddenChips
  /\ stepHidden' = result.w.stepHidden
  /\ modelGrid' = result.w.modelGrid
  /\ accessoriesGrid' = result.w.accessoriesGrid
  /\ button' = result.w.button
  /\ summary' = result.w.summary
  /\ subs' = result.w.subs
  /\ timers' = result.w.timers
  /\ last' = [op |-> op, arg |-> arg, pre |-> Store, out |-> result.out,
              run |-> ToggleRun(op, arg), twice |-> Twice(op, arg),
              accepted |-> Accepted(op, arg, result.out)]
  /\ UNCHANGED data

\* a store operation the user performs, counted against every suspended
\* submission and every pending timer
Quiet(w) ==
  [w   |-> [w EXCEPT !.subs = [i \in 1..Len(w.subs) |->
                                 [w.subs[i] EXCEPT !.busyOps = @ + 1]],
                     !.timers = [i \in 1..Len(w.timers) |->
                                 [w.timers[i] EXCEPT !.busyOps = @ + 1]]],
   out |-> <<>>]

MayClick ==
  /\ \A i \in 1..Len(subs) : subs[i].busyOps < MaxBusyOps
  /\ \A i \in 1..Len(timers) : timers[i].busyOps < MaxBusyOps

\* connectedCallback (28-32): loadData, bindEvents, initializeState
MountedAfter(snapshot, loaded, counting) ==
  /\ data = snapshot
  /\ activeHarnessModel = Null
  /\ activeAccessories = {}
  /\ selectedProducts = <<>>
  /\ modelChips = {}
  /\ accessoryChips = {}
  /\ hiddenChips = {}
  /\ stepHidden = TRUE
  /\ modelGrid = <<>>
  /\ accessoriesGrid = <<>>
  /\ button = [disabled |-> FALSE, textContent |-> MarkupLabel,
               originalText |-> MarkupLabel]
  /\ summary = [emptyHidden |-> FALSE, footerHidden |-> TRUE,
                items |-> <<>>, total |-> formatMoney(0)]
  /\ subs = <<>>
  /\ timers = <<>>
  /\ last = [op |-> "connectedCallback", arg |-> loaded,
             pre |-> [ activeHarnessModel |-> Null,
                       activeAccessories  |-> {},
                       selectedProducts   |-> <<>>,
                       button             |-> [disabled |-> FALSE,
                                               textContent |-> MarkupLabel,
                                               originalText |-> NoText] ],
             out |-> <<>>,
             run |-> [phase |-> "setup", odd |-> {}],
             twice |-> NoTwice,
             accepted |-> [NoAccepted EXCEPT !.on = counting]]

Mounted(snapshot) == MountedAfter(snapshot, NoArg, FALSE)

\* a click on a harness-model chip
ClickModelChip ==
  \E value \in ModelHandles :
    /\ MayClick
    /\ Ran("selectModel", Arg(value, 0, 0, NoOutcome),
           Quiet(handleChipClick(Widget, "harness-model", value)))

\* a click on a harness-accessory chip the page shows
ClickAccessoryChip ==
  \E value \in AccessoryHandles :
    /\ MayClick
    /\ ~stepHidden
    /\ value \notin hiddenChips
    /\ Ran("toggleAccessoryGroup", Arg(value, 0, 0, NoOutcome),
           Quiet(handleChipClick(Widget, "harness-accessory", value)))

\* a click, Enter or space on a product card
ClickProductCard ==
  \E card \in Cards :
    /\ MayClick
    /\ Ran("toggleEntry", Arg(card.productType, card.variantId, 0, NoOutcome),
           Quiet(handleProductCardClick(Widget, card)))

\* a click on the remove button of a summary row
ClickRemove ==
  \E i \in 1..Len(selectedProducts) :
    /\ MayClick
    /\ Ran("remove", Arg("", selectedProducts[i].id, 0, NoOutcome),
           Quiet(handleRemoveFromSummary(Widget, selectedProducts[i].id)))

\* a click on the + or - button of a summary row
ClickQuantity ==
  \E i \in 1..Len(selectedProducts), delta \in {1, -1} :
    /\ MayClick
    /\ delta = 1 => selectedProducts[i].quantity < MaxQuantity
    /\ Ran("changeQuantity", Arg("", selectedProducts[i].id, delta, NoOutcome),
           Quiet(handleQuantityChange(Widget, selectedProducts[i].id, delta)))

\* a click on the control; a disabled control receives none
ClickAddToCart ==
  /\ ~button.disabled
  /\ Items(selectedProducts) = <<>> =>
       Cardinality({i \in 1..Len(timers) : timers[i].kind = "rejected"})
         < MaxRejectTimers
  /\ Ran("submit", NoArg, handleAddToCart(Widget))

AddSettles ==
  \E i \in 1..Len(subs), outcome \in AddOutcomes :
    /\ subs[i].pc = "add"
    /\ (last.accepted.on /\ outcome.kind = "parsed" /\ outcome.ok)
         => Len(last.accepted.adds) < MaxAccepted
    /\ Ran("addSettled", Arg("", i, 0, outcome), AddSettled(Widget, i, outcome))

CartSettles ==
  \E i \in 1..Len(subs), outcome \in CartOutcomes :
    /\ subs[i].pc = "cart"
    /\ Ran("cartSettled", Arg("", i, 0, outcome), CartSettled(Widget, i, outcome))

\* the callback of pending timer i runs
TimerFiresAt(i) ==
  /\ i \in 1..Len(timers)
  /\ Ran("timer", Arg(timers[i].kind, i, 0, NoOutcome), TimerFired(Widget, i))

TimerFires == \E i \in 1..Len(timers) : TimerFiresAt(i)

Init == Mounted(SmallCatalog)

Next ==
  \/ ClickModelChip
  \/ ClickAccessoryChip
  \/ ClickProductCard
  \/ ClickRemove
  \/ ClickQuantity
  \/ ClickAddToCart
  \/ AddSettles
  \/ CartSettles
  \/ TimerFires

\* the whole widget, on the smaller page
Spec == Init /\ [][Next]_vars

InitStore == Mounted(Catalog)

NextStore ==
  \/ ClickModelChip
  \/ ClickAccessoryChip
  \/ ClickProductCard
  \/ ClickRemove
  \/ ClickQuantity

\* the selection operations alone, on the larger page
SpecStore == InitStore /\ [][NextStore]_vars

\* the whole widget when every awaited call settles and every timer fires:
\* the pending timer that was set first is never left waiting for ever
SpecLive ==
  /\ Spec
  /\ WF_vars(AddSettles)
  /\ WF_vars(CartSettles)
  /\ WF_vars(TimerFiresAt(1))

InitRetry == MountedAfter(SmallCatalog, NoArg, TRUE)

NextRetry ==
  \/ ClickProductCard
  \/ ClickRemove
  \/ ClickQuantity
  \/ ClickAddToCart
  \/ AddSettles
  \/ CartSettles
  \/ TimerFires

\* the cards, the summary and the submissions of the smaller page, in runs
\* that keep count of what the shop accepted
SpecRetry == InitRetry /\ [][NextRetry]_vars

\* Product cards of the page's markup whose variant is in none of the
\* embedded JSON documents, one of them with a product type the widget does
\* not know
StrayCards ==
  { [variantId |-> 99, productType |-> t, available |-> TRUE] :
      t \in {"harness-model", "harness-accessory", "accessory", "bundle"} }

\* a click on such a card: the delegated listener of bindEvents passes any
\* [data-product-card] element to handleProductCardClick
ClickStrayCard ==
  \E card \in StrayCards :
    /\ MayClick
    /\ Ran("toggleEntry", Arg(card.productType, card.variantId, 0, NoOutcome),
           Quiet(handleProductCardClick(Widget, card)))

\* the quantity of the entry of variantId, 0 when it has none
QuantityOf(products, variantId) ==
  IF Has(products, variantId)
    THEN products[CHOOSE k \in 1..Len(products) :
                    products[k].id = variantId].quantity
    ELSE 0

\* another script of the page calls the element's handleQuantityChange
\* method, with any variant id and any delta
CallQuantityChange ==
  \E variantId \in {v.id : v \in Range(Candidates("harness-model"))
                                    \cup Range(Candidates("harness-accessory"))
                                    \cup Range(Candidates("accessory"))}
                     \cup {99},
     delta \in (0 - MaxQuantity)..MaxQuantity :
    /\ MayClick
    /\ QuantityOf(selectedProducts, variantId) + delta <= MaxQuantity
    /\ Ran("changeQuantity", Arg("", variantId, delta, NoOutcome),
           Quiet(handleQuantityChange(Widget, variantId, delta)))

NextStray ==
  \/ NextStore
  \/ ClickStrayCard
  \/ CallQuantityChange

\* the selection operations on the smaller page, when it also has stray
\* cards and another script that changes quantities
SpecStray == Init /\ [][NextStray]_vars

\* chips of the markup whose value names no entry of the embedded JSON: a
\* model chip and an accessory chip (the template writes the chips, the
\* script reads the JSON; nothing ties the two together)
StrayChips ==
  { [field |-> "harness-model", value |-> "MX"],
    [field |-> "harness-accessory", value |-> "GX"] }

\* a click on such a chip: the delegated listener of bindEvents passes any
\* [data-chip] element to handleChipClick; an accessory chip is inside the
\* accessories step and cannot be clicked while the step is hidden
ClickStrayChip ==
  \E chip \in StrayChips :
    /\ MayClick
    /\ chip.field = "harness-accessory" => ~stepHidden
    /\ Ran(IF chip.field = "harness-model" THEN "selectModel"
                                           ELSE "toggleAccessoryGroup",
           Arg(chip.value, 0, 0, NoOutcome),
           Quiet(handleChipClick(Widget, chip.field, chip.value)))

\* a click on a [data-summary-remove] button whose id has no entry: the
\* button of a row that a timer or another handler has emptied meanwhile,
\* or a button of the markup
ClickStrayRemove ==
  \E variantId \in {v.id : v \in Range(Candidates("harness-model"))
                                    \cup Range(Candidates("harness-accessory"))
                                    \cup Range(Candidates("accessory"))}
                     \cup {99} :
    /\ MayClick
    /\ ~Has(selectedProducts, variantId)
    /\ Ran("remove", Arg("", variantId, 0, NoOutcome),
           Quiet(handleRemoveFromSummary(Widget, variantId)))

NextInvalid ==
  \/ NextStray
  \/ ClickStrayChip
  \/ ClickStrayRemove

\* the selection operations on the smaller page, with every kind of
\* target that names nothing: stray cards, stray chips, quantity changes
\* and removals of ids that have no entry
SpecInvalid == Init /\ [][NextInvalid]_vars

\* The four JSON script elements in the order loadData reads them (38-47).
Kinds == <<"harnessModels", "harnessTypes", "harnessAccessories", "accessories">>

\* the text of a script element: well formed, with the value it encodes, or
\* malformed
WellFormed(value) == [ok |-> TRUE, value |-> value]
MalformedText == [ok |-> FALSE, value |-> <<>>]

\* the texts of a page that embeds Catalog, with the kinds of `broken`
\* malformed
Raw(broken) ==
  [k \in Range(Kinds) |-> IF k \in broken THEN MalformedText
                                          ELSE WellFormed(Catalog[k])]

\* loadData (37-51): one try around the four JSON.parse calls; the first
\* throw ends the block, so the kinds before it are assigned and that kind
\* and every later one keep the [] of the constructor (20-25)
loadData(raw) ==
  LET thrown == {i \in 1..Len(Kinds) : ~raw[Kinds[i]].ok}
      parsed(i) == \A j \in 1..i : j \notin thrown
  IN  [k \in Range(Kinds) |->
         IF parsed(CHOOSE i \in 1..Len(Kinds) : Kinds[i] = k)
           THEN raw[k].value ELSE <<>>]

\* the chips the template writes for the page that embeds Catalog; the
\* template does not depend on the JSON elements being well formed
MarkupChips ==
  { [field |-> "harness-model", value |-> m] : m \in Range(Catalog.harnessModels) }
    \cup { [field |-> "harness-accessory", value |-> a.handle] :
             a \in Range(Catalog.harnessAccessories) }

\* a click on a chip of the markup that is shown
ClickMarkupChip ==
  \E chip \in MarkupChips :
    /\ MayClick
    /\ chip.field = "harness-accessory" =>
         ~stepHidden /\ chip.value \notin hiddenChips
    /\ Ran(IF chip.field = "harness-model" THEN "selectModel"
                                           ELSE "toggleAccessoryGroup",
           Arg(chip.value, 0, 0, NoOutcome),
           Quiet(handleChipClick(Widget, chip.field, chip.value)))

\* the variants the page was meant to embed, with the role of their kind
PageVariants ==
  { [variantId |-> v.id, productType |-> "harness-model", available |-> v.available] :
      v \in UNION {Range(t.variants) : t \in Range(Catalog.harnessTypes)} }
  \cup
  { [variantId |-> v.id, productType |-> "harness-accessory", available |-> v.available] :
      v \in UNION {Range(a.variants) : a \in Range(Catalog.harnessAccessories)} }
  \cup
  { [variantId |-> v.id, productType |-> "accessory", available |-> v.available] :
      v \in Range(Catalog.accessories) }

\* the variants of the page that the loaded data does not hold
LostVariants ==
  {c \in PageVariants :
     \A v \in Range(Candidates(c.productType)) : v.id # c.variantId}

\* a card, a quantity button or a remove button that carries the id of a
\* variant the loaded data does not hold (a card cached by the browser, or
\* a call by another script of the page)
ClickLostCard ==
  \E card \in LostVariants :
    /\ MayClick
    /\ Ran("toggleEntry", Arg(card.productType, card.variantId, 0, NoOutcome),
           Quiet(handleProductCardClick(Widget, card)))

ClickLostQuantity ==
  \E card \in LostVariants, delta \in {1, -1} :
    /\ MayClick
    /\ Ran("changeQuantity", Arg("", card.variantId, delta, NoOutcome),
           Quiet(handleQuantityChange(Widget, card.variantId, delta)))

ClickLostRemove ==
  \E card \in LostVariants :
    /\ MayClick
    /\ Ran("remove", Arg("", card.variantId, 0, NoOutcome),
           Quiet(handleRemoveFromSummary(Widget, card.variantId)))

\* the page mounts with all four elements well formed or with one of them
\* malformed; the record of the mount names the malformed kind
InitLoad ==
  \E broken \in {{}} \cup {{Kinds[i]} : i \in 1..Len(Kinds)} :
    MountedAfter(loadData(Raw(broken)),
                 Arg(IF broken = {} THEN "" ELSE CHOOSE k \in broken : TRUE,
                     0, 0, NoOutcome),
                 FALSE)

NextLoad ==
  \/ ClickMarkupChip
  \/ ClickProductCard
  \/ ClickRemove
  \/ ClickQuantity
  \/ ClickLostCard
  \/ ClickLostQuantity
  \/ ClickLostRemove

\* the selection operations on a page of which one JSON element may be
\* malformed
SpecLoad == InitLoad /\ [][NextLoad]_vars

\* Texts the description and message fields of a non-success response may
\* carry, each with its length and the stock phrases its lower-cased text
\* includes: absent, short, exactly 30 and 31 characters, long, the phrases
\* in lower, mixed and upper case, and the text of the sentinel of 619.
ErrorTexts ==
  { NoMessage,
    Message("Cart Error", 10, {}),
    Message("Quantity exceeds the set limit", 30, {}),
    Message("Quantity exceeds the set limits", 31, {}),
    Message("The cart could not be updated right now.", 40, {}),
    Message("Variant not available due to inventory", 38,
            {"not available", "inventory"}),
    Message("Out Of Stock", 12, {"out of stock"}),
    Message("SOLD OUT - NO INVENTORY", 23, {"inventory"}),
    Message("Item is not available", 21, {"not available"}),
    Message("out_of_stock", 12, {}) }

\* responseData.description || responseData.message || '' (615)
ErrorField(description, message) ==
  IF description # NoMessage THEN description ELSE message

\* the add request of invocation i comes back with a status that is not ok
\* and a body that parses
AddRefused ==
  \E i \in 1..Len(subs), description \in ErrorTexts, message \in ErrorTexts :
    /\ subs[i].pc = "add"
    /\ Ran("addSettled",
           Arg(description.text, i, 0,
               Response(FALSE, ErrorField(description, message), 0)),
           AddSettled(Widget, i,
                      Response(FALSE, ErrorField(description, message), 0)))

NextLabel ==
  \/ ClickProductCard
  \/ ClickQuantity
  \/ ClickAddToCart
  \/ AddRefused
  \/ TimerFires

\* submissions that the shop refuses, with every text of ErrorTexts
SpecLabel == Init /\ [][NextLabel]_vars

-----------------------------------------------------------------------------
(* Properties.  One time-unit of the specification is 1000 ms.             *)

Settled == last.op \in {"addSettled", "cartSettled"}

\* the awaited call of the last task came back with a parsed body that let
\* the submission go on
WentOn ==
  /\ last.arg.outcome.kind = "parsed"
  /\ last.op = "addSettled" => last.arg.outcome.ok

SuccessStep == last.op = "cartSettled" /\ WentOn
FailureStep == Settled /\ ~WentOn

OutKinds == {last.out[i].kind : i \in 1..Len(last.out)}

FailedPending == {i \in 1..Len(timers) : timers[i].kind = "failed"}

\* C1: after any selectModel call, to another model or off, no accessory
\* group is active and no model-variant or dependent-accessory entry is in
\* the store.
C1_SelectModelClears ==
  last.op = "selectModel" =>
    /\ activeAccessories = {}
    /\ OfType(selectedProducts, "harness-model") = <<>>
    /\ OfType(selectedProducts, "harness-accessory") = <<>>

C1_Witness ==
  /\ last.op = "selectModel"
  /\ last.arg.value = "M2"
  /\ last.pre.activeHarnessModel = "M1"
  /\ last.pre.activeAccessories = {"G1", "G2"}
  /\ OfType(last.pre.selectedProducts, "harness-model") # <<>>
  /\ OfType(last.pre.selectedProducts, "harness-accessory") # <<>>
  /\ activeHarnessModel = "M2"

\* C2: selectModel and toggleAccessoryGroup leave the independent-accessory
\* entries as they were: the same entries, in the same order, with the same
\* quantity and fields.
C2_IndependentKept ==
  last.op \in {"selectModel", "toggleAccessoryGroup"} =>
    OfType(selectedProducts, "accessory")
      = OfType(last.pre.selectedProducts, "accessory")

C2_Witness ==
  /\ last.op = "toggleAccessoryGroup"
  /\ last.arg.value = "G1"
  /\ Len(selectedProducts) < Len(last.pre.selectedProducts)
  /\ \E i \in 1..Len(selectedProducts) :
       /\ selectedProducts[i].productType = "accessory"
       /\ selectedProducts[i].quantity = 2

\* the groups section 4.3 of the specification calls visible for a model
visibleGroups(model) ==
  {a.handle : a \in {x \in Range(data.harnessAccessories) :
                       x.harnessTypeHandles = {} \/ model \in x.harnessTypeHandles}}

\* C3: in every reachable state the active accessory groups are among the
\* groups visible for the active model, and none is active while no model is.
C3_ActiveGroupsVisible ==
  /\ activeAccessories \subseteq visibleGroups(activeHarnessModel)
  /\ activeHarnessModel = Null => activeAccessories = {}

C3_Witness ==
  /\ SuccessStep
  /\ activeHarnessModel = "M2"
  /\ activeAccessories = {"G2"}
  /\ "G1" \in hiddenChips

\* C4: at most one submission is under way, from the add request until the
\* control is enabled again, and the control is disabled for all that time;
\* an accepted submit starts from an enabled control and sends exactly one
\* add request, and nothing else sends one.
C4_OneSubmission ==
  /\ Len(subs) + Cardinality(FailedPending) <= 1
  /\ Len(subs) + Cardinality(FailedPending) = 1 => button.disabled
  /\ "POST cart/add.js" \in OutKinds =>
       /\ last.op = "submit"
       /\ ~last.pre.button.disabled
       /\ Len(last.out) = 1
  /\ last.op = "submit" /\ last.pre.selectedProducts # <<>> =>
       "POST cart/add.js" \in OutKinds

C4_Witness ==
  /\ Len(subs) = 1
  /\ subs[1].pc = "cart"
  /\ subs[1].busyOps = 1
  /\ button.disabled
  /\ last.op = "toggleEntry"

C7_FailureKeepsStore ==
  FailureStep \/ (last.op = "timer" /\ last.arg.value = "failed") =>
    /\ activeHarnessModel = last.pre.activeHarnessModel
    /\ activeAccessories = last.pre.activeAccessories
    /\ selectedProducts = last.pre.selectedProducts

C7_Witness ==
  /\ FailureStep
  /\ last.op = "cartSettled"
  /\ activeHarnessModel = "M1"
  /\ activeAccessories = {"G1"}
  /\ Len(selectedProducts) = 2
  /\ selectedProducts[1].quantity = 2

\* C8: submit on a store with no entry sends no request, leaves the control
\* enabled, shows 'Select products first' and sets one timer of 2
\* time-units; when that timer fires the label is the control's idle label
\* again.
C8_EmptyRejected ==
  /\ last.op = "submit" /\ last.pre.selectedProducts = <<>> =>
       /\ OutKinds = {"setTimeout"}
       /\ Len(last.out) = 1
       /\ last.out[1].delay = 2000
       /\ subs = <<>>
       /\ ~button.disabled
       /\ button.textContent = Label("Select products first")
       /\ \E i \in 1..Len(timers) :
            timers[i].kind = "rejected" /\ timers[i].delay = 2000
  /\ last.op = "timer" /\ last.arg.value = "rejected" =>
       /\ button.textContent = last.pre.button.originalText
       /\ button.textContent # Label("Select products first")

C8_Witness ==
  /\ last.op = "timer"
  /\ last.arg.value = "rejected"
  /\ last.pre.button.textContent = Label("Select products first")
  /\ button.textContent = MarkupLabel
  /\ timers = <<>>

\* C9: the cart read is sent only by the continuation that got a success
\* response to the add request, never by the click that starts the
\* submission; when the add request fails or its body cannot be parsed the
\* submission ends there, with no cart read.
C9_CartReadAfterAdd ==
  /\ "GET cart.js" \in OutKinds =>
       /\ last.op = "addSettled"
       /\ last.arg.outcome.kind = "parsed"
       /\ last.arg.outcome.ok
  /\ last.op = "addSettled" /\ ~WentOn =>
       /\ "GET cart.js" \notin OutKinds
       /\ subs = <<>>
  /\ last.op = "submit" =>
       /\ "GET cart.js" \notin OutKinds
       /\ \A i \in 1..Len(subs) : subs[i].pc = "add"

C9_Witness ==
  /\ last.op = "addSettled"
  /\ OutKinds = {"GET cart.js"}
  /\ Len(subs) = 1
  /\ subs[1].pc = "cart"

\* C10: the cart-changed notification is dispatched once by the task that
\* completes a successful submission and by no other task; it carries the
\* cart that the cart read returned, and the selections are still in the
\* store when it is dispatched and gone when the task ends.
C10_NotifiedOnce ==
  /\ SuccessStep =>
       /\ Len(last.out) = 1
       /\ last.out[1].kind = "cart:update"
       /\ last.out[1].cart = last.arg.outcome.cart
       /\ last.out[1].seen = last.pre.selectedProducts
       /\ selectedProducts = <<>>
  /\ ~SuccessStep => "cart:update" \notin OutKinds

C10_Witness ==
  /\ SuccessStep
  /\ last.out[1].kind = "cart:update"
  /\ last.out[1].cart = 2
  /\ Len(last.out[1].seen) = 2
  /\ selectedProducts = <<>>

\* the awaited call of the last task was rejected, or its body did not parse
Faulted == Settled /\ last.arg.outcome.kind \in {"rejected", "unparsable"}

\* what every failed submission leaves behind: no suspended invocation, the
\* control disabled under a label that is not the busy one, and exactly one
\* timer set, of 2.5 time-units, to end the display
FailedDisplay ==
  /\ subs = <<>>
  /\ button.disabled
  /\ button.textContent \notin {Label("Adding..."), NoText}
  /\ Len(last.out) = 1
  /\ last.out[1].kind = "setTimeout"
  /\ last.out[1].delay = 2500
  /\ Cardinality(FailedPending) = 1

\* C11: a rejected call or an unparsable body, at the add request or at the
\* cart read, ends the submission as a non-success response does: the task
\* shows an error label (the fault's message when it has at most 30
\* characters, else 'Error - Try Again'), sets the 2.5 time-unit timer and
\* leaves no invocation suspended.
C11_FaultsCaught ==
  /\ FailureStep => FailedDisplay
  /\ Faulted =>
       button.textContent =
         IF last.arg.outcome.message.length <= 30
           THEN Label(last.arg.outcome.message.text)
           ELSE Label("Error - Try Again")

C11_Witness ==
  /\ Faulted
  /\ last.op = "cartSettled"
  /\ last.arg.outcome.kind = "unparsable"
  /\ last.pre.button.textContent = Label("Adding...")
  /\ button.textContent = Label("Error - Try Again")
  /\ FailedDisplay

\* the pipeline is idle: no invocation suspended, no failure on display,
\* the control enabled
PipelineIdle == subs = <<>> /\ FailedPending = {} /\ ~button.disabled

\* the labels the control can carry while it is enabled
IdleLabels ==
  {MarkupLabel, Label("Select products first")}
    \cup {CountLabel(n) : n \in 1..(2 * MaxQuantity)}

\* C12 as stated: every submit call is followed by a state in which the
\* pipeline is idle, the control is enabled and the label is the one the
\* control had when submit was called.
C12_Original ==
  \A l \in IdleLabels :
    (last.op = "submit" /\ last.pre.button.textContent = l)
      ~> (PipelineIdle /\ button.textContent = l)

\* What does hold of C12: an accepted submit is followed by the task that
\* ends it, the success itself or the 2.5 time-unit timer of a failure, and
\* that task leaves the pipeline idle, the control enabled and the label the
\* control had when submit was called; a rejected submit is followed by its
\* 2 time-unit timer, which writes the control's stored idle label.
C12_SubmitEnds ==
  /\ \A l \in IdleLabels :
       (last.op = "submit" /\ last.pre.selectedProducts # <<>>
          /\ last.pre.button.textContent = l)
         ~> ( /\ SuccessStep \/ (last.op = "timer" /\ last.arg.value = "failed")
              /\ PipelineIdle
              /\ button.textContent = l )
  /\ (last.op = "submit" /\ last.pre.selectedProducts = <<>>)
       ~> ( /\ last.op = "timer"
            /\ last.arg.value = "rejected"
            /\ button.textContent = button.originalText )
  /\ [](\A i \in 1..Len(timers) :
          timers[i].delay = IF timers[i].kind = "failed" THEN 2500 ELSE 2000)

\* the {id, quantity} pairs of a sequence of entries, in its order
Pairs(products) ==
  [i \in 1..Len(products) |->
     [id |-> products[i].id, quantity |-> products[i].quantity]]

\* C13 as stated: the payload of the add request holds one {id, quantity}
\* pair for every entry and nothing else, in the order of the summary: the
\* model variants, then the dependent accessories, then the independent
\* accessories, each role in insertion order.
C13_Original ==
  "POST cart/add.js" \in OutKinds =>
    last.out[1].items = Pairs(SummaryOrder(last.pre.selectedProducts))

\* C13, amended: the payload of the add request holds one {id, quantity}
\* pair for every entry and nothing else, in the order in which the entries
\* were inserted into the store, whatever their roles.
C13_PayloadInInsertionOrder ==
  /\ "POST cart/add.js" \in OutKinds =>
       /\ last.out[1].items = Pairs(last.pre.selectedProducts)
       /\ selectedProducts = last.pre.selectedProducts
  /\ \A i \in 1..Len(subs) :
       subs[i].busyOps = 0 => subs[i].items = Pairs(selectedProducts)

C13_Witness ==
  /\ last.op = "submit"
  /\ Len(last.out) = 1
  /\ last.out[1].kind = "POST cart/add.js"
  /\ last.out[1].items = <<[id |-> 31, quantity |-> 2], [id |-> 21, quantity |-> 1]>>
  /\ selectedProducts[1].productType = "accessory"
  /\ selectedProducts[2].productType = "harness-accessory"

\* the add request of the last task came back parsed and not ok
Refused ==
  /\ last.op = "addSettled"
  /\ last.arg.outcome.kind = "parsed"
  /\ ~last.arg.outcome.ok

\* C14 as stated: after a non-success response to the add request the label
\* is 'Some items are out of stock' when the error text contains one of the
\* three phrases in any letter case; else the text itself when it has at
\* most 30 characters; else, the text being longer or absent, 'Error - Try
\* Again'.
C14_Original ==
  Refused =>
    LET m == last.arg.outcome.message
    IN  button.textContent =
          IF m.phrases # {} THEN Label("Some items are out of stock")
          ELSE IF m # NoMessage /\ m.length <= 30 THEN Label(m.text)
          ELSE Label("Error - Try Again")

\* C14, amended: the error text is the description field, or the message
\* field when there is no description.  The label is 'Some items are out of
\* stock' when the text contains one of the three phrases in any letter
\* case or is the word out_of_stock itself; 'Failed to add to cart' when the
\* text is absent; else the text itself when it has at most 30 characters
\* and 'Error - Try Again' when it is longer.
C14_ErrorLabel ==
  Refused =>
    LET m == last.arg.outcome.message
    IN  /\ last.arg.value # "" => m.text = last.arg.value
        /\ button.textContent =
             IF m.phrases # {} \/ m.text = "out_of_stock"
               THEN Label("Some items are out of stock")
             ELSE IF m = NoMessage THEN Label("Failed to add to cart")
             ELSE IF m.length <= 30 THEN Label(m.text)
             ELSE Label("Error - Try Again")

C14_Witness ==
  /\ Refused
  /\ last.arg.value = ""
  /\ last.arg.outcome.message.length = 30
  /\ last.pre.button.textContent = Label("Adding...")
  /\ button.textContent = Label("Quantity exceeds the set limit")

\* the variant ids that have an entry
SelectedIds == {selectedProducts[i].id : i \in 1..Len(selectedProducts)}

\* C15: from the empty selections, after any sequence of toggleEntry calls
\* on cards that are in stock, with nothing else in between, the store holds
\* one entry for each id toggled an odd number of times and no other entry,
\* each with quantity 1.
C15_OddToggles ==
  /\ last.run.phase = "setup" => selectedProducts = <<>>
  /\ last.run.phase = "toggling" =>
       /\ SelectedIds = last.run.odd
       /\ Len(selectedProducts) = Cardinality(last.run.odd)
       /\ \A i \in 1..Len(selectedProducts) : selectedProducts[i].quantity = 1

C15_Witness ==
  /\ last.run.phase = "toggling"
  /\ last.op = "toggleEntry"
  /\ last.arg.id = 21
  /\ Len(last.pre.selectedProducts) = 4
  /\ last.run.odd = {11, 31, 32}
  /\ SelectedIds = {11, 31, 32}

\* every variant of the embedded JSON documents
AllVariants ==
  Range(Candidates("harness-model"))
    \cup Range(Candidates("harness-accessory"))
    \cup Range(Candidates("accessory"))

\* the last task was a click on a card that is out of stock, or on a card
\* whose id is not in the catalog
DeadClick ==
  /\ last.op = "toggleEntry"
  /\ \/ \E v \in AllVariants : v.id = last.arg.id /\ ~v.available
     \/ /\ \A v \in AllVariants : v.id # last.arg.id
        /\ ~Has(last.pre.selectedProducts, last.arg.id)

\* C16: toggleEntry on an entry that is out of stock, or on an id that is
\* not in the catalog and has no entry, inserts nothing and leaves the
\* active model, the active groups and every entry as they were.
C16_DeadClickChangesNothing ==
  DeadClick =>
    /\ activeHarnessModel = last.pre.activeHarnessModel
    /\ activeAccessories = last.pre.activeAccessories
    /\ selectedProducts = last.pre.selectedProducts

C16_Witness ==
  /\ DeadClick
  /\ last.arg.id = 12
  /\ last.arg.value = "harness-model"
  /\ activeHarnessModel = "M1"
  /\ Len(last.pre.selectedProducts) = 2
  /\ selectedProducts = last.pre.selectedProducts

\* C17: changeQuantity(id, delta) on an id that has an entry sets the
\* quantity of that entry to old + delta when the sum is positive and
\* removes the entry when it is zero or negative, every other entry staying
\* as it was and in its place; on an id that has no entry it changes
\* nothing and creates nothing.
C17_ChangeQuantity ==
  last.op = "changeQuantity" =>
    LET pre == last.pre.selectedProducts
        id  == last.arg.id
        sum == QuantityOf(pre, id) + last.arg.delta
    IN  selectedProducts =
          IF ~Has(pre, id) THEN pre
          ELSE IF sum > 0
            THEN [k \in 1..Len(pre) |->
                    IF pre[k].id = id THEN [pre[k] EXCEPT !.quantity = sum]
                                      ELSE pre[k]]
          ELSE SelectSeq(pre, LAMBDA p : p.id # id)

C17_Witness ==
  /\ last.op = "changeQuantity"
  /\ last.arg.id = 31
  /\ last.arg.delta = 0 - 2
  /\ QuantityOf(last.pre.selectedProducts, 31) = 2
  /\ Len(last.pre.selectedProducts) = 2
  /\ last.pre.selectedProducts[1].id = 31
  /\ Len(selectedProducts) = 1
  /\ selectedProducts[1] = last.pre.selectedProducts[2]

\* C18: in every reachable state every entry of the store has an integer
\* quantity of at least 1.
C18_QuantityPositive ==
  \A i \in 1..Len(selectedProducts) :
    /\ selectedProducts[i].quantity \in Int
    /\ selectedProducts[i].quantity >= 1

C18_Witness ==
  /\ last.op = "changeQuantity"
  /\ last.arg.delta = 0 - 1
  /\ Len(last.pre.selectedProducts) = 2
  /\ QuantityOf(last.pre.selectedProducts, last.arg.id) = 1
  /\ Len(selectedProducts) = 1
  /\ selectedProducts[1].quantity = MaxQuantity

\* C19: selectModel(modelId) leaves no model active when modelId is the
\* active model and makes modelId the active model otherwise; in both cases
\* it creates no entry: the entries after the call are entries of before,
\* unchanged and in their order.
C19_SelectModelToggles ==
  last.op = "selectModel" =>
    /\ activeHarnessModel =
         IF last.arg.value = last.pre.activeHarnessModel
           THEN Null ELSE last.arg.value
    /\ selectedProducts =
         SelectSeq(last.pre.selectedProducts,
                   LAMBDA p : p \in Range(selectedProducts))

C19_Witness ==
  /\ last.op = "selectModel"
  /\ last.arg.value = "M1"
  /\ last.pre.activeHarnessModel = "M1"
  /\ activeHarnessModel = Null
  /\ Len(last.pre.selectedProducts) = 4
  /\ Len(selectedProducts) = 2

\* C20: in every reachable state at most one model chip is marked selected,
\* and a model chip is marked selected exactly when its value is the active
\* model.
C20_OneModelChip ==
  /\ Cardinality(modelChips) <= 1
  /\ \A value \in ModelHandles :
       value \in modelChips <=> value = activeHarnessModel
  /\ activeHarnessModel \in ModelHandles \cup {Null}

C20_Witness ==
  /\ last.op = "selectModel"
  /\ last.arg.value = "M2"
  /\ last.pre.activeHarnessModel = "M1"
  /\ last.pre.selectedProducts # <<>>
  /\ modelChips = {"M2"}
  /\ activeHarnessModel = "M2"

\* the last two tasks were selectModel calls with the same model
SelectedTwice == last.op = "selectModel" /\ last.twice.on

\* C21 as stated: selectModel(m) followed by selectModel(m) returns the
\* store to the state before the first call: the same active model, the
\* same active groups, the same entries.
C21_Original ==
  SelectedTwice =>
    /\ activeHarnessModel = last.twice.pre.activeHarnessModel
    /\ activeAccessories = last.twice.pre.activeAccessories
    /\ selectedProducts = last.twice.pre.selectedProducts

\* C21, amended: after selectModel(m) followed by selectModel(m) the active
\* model is m when m was active before the first call and none otherwise,
\* no group is active, no model-variant or dependent-accessory entry is in
\* the store, and the independent-accessory entries are those of before,
\* unchanged throughout.
C21_SelectTwice ==
  SelectedTwice =>
    /\ activeHarnessModel =
         IF last.twice.pre.activeHarnessModel = last.arg.value
           THEN last.arg.value ELSE Null
    /\ activeAccessories = {}
    /\ OfType(selectedProducts, "harness-model") = <<>>
    /\ OfType(selectedProducts, "harness-accessory") = <<>>
    /\ selectedProducts = OfType(last.twice.pre.selectedProducts, "accessory")
    /\ selectedProducts = OfType(last.pre.selectedProducts, "accessory")

C21_Witness ==
  /\ SelectedTwice
  /\ last.arg.value = "M1"
  /\ last.twice.pre.activeHarnessModel = "M1"
  /\ last.twice.pre.activeAccessories = {"G1", "G2"}
  /\ Len(last.twice.pre.selectedProducts) = 4
  /\ activeHarnessModel = "M1"
  /\ Len(selectedProducts) = 2

\* the ids of the variants of a group of dependent accessories
GroupVariantIds(handle) ==
  {v.id : v \in UNION {Range(a.variants) :
                         a \in {x \in Range(data.harnessAccessories) :
                                  x.handle = handle}}}

\* C22: toggleAccessoryGroup(g) flips the membership of g in the active
\* groups; when it removes g it deletes, in the same task, every entry
\* whose id is a variant of g and leaves every other entry as it was; when
\* it adds g it leaves all entries as they were.
C22_ToggleGroup ==
  last.op = "toggleAccessoryGroup" =>
    LET g == last.arg.value
        pre == last.pre
    IN  /\ activeHarnessModel = pre.activeHarnessModel
        /\ g \in pre.activeAccessories =>
             /\ activeAccessories = pre.activeAccessories \ {g}
             /\ selectedProducts =
                  SelectSeq(pre.selectedProducts,
                            LAMBDA p : p.id \notin GroupVariantIds(g))
        /\ g \notin pre.activeAccessories =>
             /\ activeAccessories = pre.activeAccessories \cup {g}
             /\ selectedProducts = pre.selectedProducts

C22_Witness ==
  /\ last.op = "toggleAccessoryGroup"
  /\ last.arg.value = "G1"
  /\ last.pre.activeAccessories = {"G1", "G2"}
  /\ activeAccessories = {"G2"}
  /\ Has(last.pre.selectedProducts, 21)
  /\ Len(last.pre.selectedProducts) = 4
  /\ Len(selectedProducts) = 3
  /\ Has(selectedProducts, 11)

\* the last two tasks were toggleAccessoryGroup calls with the same group
ToggledTwice == last.op = "toggleAccessoryGroup" /\ last.twice.on

\* C23 as stated: after toggleAccessoryGroup(g) twice in a row the active
\* groups and the selections are what they were before the first call.
C23_Original ==
  ToggledTwice =>
    /\ activeAccessories = last.twice.pre.activeAccessories
    /\ selectedProducts = last.twice.pre.selectedProducts

\* C23, amended: after toggleAccessoryGroup(g) twice in a row the active
\* model and the active groups are what they were before the first call,
\* and the selections are those of before the first call without the
\* entries of group g.
C23_ToggleTwice ==
  ToggledTwice =>
    /\ activeHarnessModel = last.twice.pre.activeHarnessModel
    /\ activeAccessories = last.twice.pre.activeAccessories
    /\ selectedProducts =
         SelectSeq(last.twice.pre.selectedProducts,
                   LAMBDA p : p.id \notin GroupVariantIds(last.arg.value))

C23_Witness ==
  /\ ToggledTwice
  /\ last.arg.value = "G1"
  /\ last.twice.pre.activeAccessories = {"G1"}
  /\ activeAccessories = {"G1"}
  /\ Has(last.twice.pre.selectedProducts, 21)
  /\ Len(last.twice.pre.selectedProducts) = 3
  /\ ~Has(selectedProducts, 21)
  /\ Len(selectedProducts) = 2

\* the chip of a group can be seen and clicked: the step is shown and the
\* chip is displayed
Selectable(handle) == ~stepHidden /\ handle \notin hiddenChips

\* C24 as stated: for every active model, none included, a group is
\* selectable exactly when its list of owner models is empty or contains
\* the active model.
C24_Original ==
  \A handle \in AccessoryHandles :
    Selectable(handle) <=> handle \in visibleGroups(activeHarnessModel)

\* C24, amended: while a model is active a group is selectable exactly when
\* its list of owner models is empty or contains the active model; while no
\* model is active no group is selectable.
C24_VisibleGroups ==
  \A handle \in AccessoryHandles :
    Selectable(handle) <=>
      /\ activeHarnessModel # Null
      /\ handle \in visibleGroups(activeHarnessModel)

C24_Witness ==
  /\ last.op = "selectModel"
  /\ last.pre.activeAccessories = {"G1", "G2"}
  /\ activeHarnessModel = "M2"
  /\ ~Selectable("G1")
  /\ Selectable("G2")

\* the sum of a sequence of numbers
RECURSIVE Sum(_)
Sum(numbers) ==
  IF numbers = <<>> THEN 0 ELSE Head(numbers) + Sum(Tail(numbers))

\* the amount in minor units that a formatted price shows
Shown(money) == money.dollars * 100 + money.cents

\* C25: in every reachable state the grand total the summary shows is the
\* sum over all entries of unit price times quantity.
C25_GrandTotal ==
  /\ Shown(summary.total) =
       Sum([i \in 1..Len(selectedProducts) |->
              selectedProducts[i].price * selectedProducts[i].quantity])
  /\ summary.total.cents \in 0..99

C25_Witness ==
  /\ Len(selectedProducts) = 4
  /\ \E i \in 1..4 : selectedProducts[i].price = 0
  /\ \E i \in 1..4 : selectedProducts[i].quantity = 2 /\ selectedProducts[i].id = 31
  /\ \E i \in 1..4 : selectedProducts[i].quantity = 1 /\ selectedProducts[i].id = 11
  /\ \E i \in 1..4 : selectedProducts[i].quantity = 1 /\ selectedProducts[i].id = 21
  /\ summary.total = [dollars |-> 79, cents |-> 50]

\* the quantities of the entries, in store order
Quantities(products) == [i \in 1..Len(products) |-> products[i].quantity]

\* C26: in every reachable state the item count that updateSummary computes,
\* and prints in the label of the control when it is positive, is the sum of
\* the quantities of all entries, whatever their unit price, 0 included.
C26_Original ==
  LET units == Sum(Quantities(selectedProducts))
  IN  /\ ItemCount(selectedProducts) = units
      /\ units > 0 => button.textContent = CountLabel(units)

\* C27: in every reachable state the empty-state text is hidden and the
\* footer is shown exactly when the item count in the label of the control
\* is greater than 0.
C27_Original ==
  (summary.emptyHidden /\ ~summary.footerHidden)
    <=> button.textContent.count > 0

\* the ids of the rows of the summary, top to bottom
RowIds(rows) == [i \in 1..Len(rows) |-> rows[i].variantId]

\* the place of a role in the display order of the summary
RoleRank(productType) ==
  CASE productType = "harness-model"     -> 1
    [] productType = "harness-accessory" -> 2
    [] productType = "accessory"         -> 3
    [] OTHER                             -> 4

\* the role of the entry of the store with this id
RoleOf(products, variantId) ==
  products[CHOOSE i \in 1..Len(products) : products[i].id = variantId].productType

\* the row at which an id is listed
RowOf(ids, variantId) == CHOOSE i \in 1..Len(ids) : ids[i] = variantId

Listed(ids) == {ids[i] : i \in 1..Len(ids)}

\* C28: after every step the summary lists each entry of the store once,
\* model variants first, then dependent accessories, then independent
\* accessories; entries that stay in the store keep their order, an entry
\* that enters the store (for the first time or again) is listed after the
\* entries of its role that were there before, and a change of quantity
\* that keeps the entry leaves the list of rows as it was.
C28_ListedInOrder ==
  [][ LET before == RowIds(summary.items)
          after  == RowIds(summary'.items)
          rank(id) == RoleRank(RoleOf(selectedProducts', id))
      IN  /\ Len(after) = Len(selectedProducts')
          /\ Listed(after) = {selectedProducts'[i].id : i \in 1..Len(selectedProducts')}
          /\ \A i, j \in 1..Len(after) :
               i < j =>
                 /\ rank(after[i]) <= rank(after[j])
                 /\ ({after[i], after[j]} \subseteq Listed(before)
                       => RowOf(before, after[i]) < RowOf(before, after[j]))
                 /\ (rank(after[i]) = rank(after[j]) /\ after[i] \notin Listed(before)
                       => after[j] \notin Listed(before))
          /\ (last'.op = "changeQuantity" /\ Listed(after) = Listed(before))
               => after = before
    ]_vars

C28_Witness ==
  /\ last.op = "toggleEntry"
  /\ last.arg.id = 11
  /\ Len(last.pre.selectedProducts) = 2
  /\ last.pre.selectedProducts[1].id = 32
  /\ last.pre.selectedProducts[2].id = 31
  /\ last.pre.selectedProducts[2].quantity = 2
  /\ RowIds(summary.items) = <<11, 32, 31>>
  /\ summary.items[3].quantity = 2

\* what updateSummary shows for a store on a page where nothing was ever
\* submitted: the rows, the total, the two flags and the label of the control
Projection(products) ==
  [summary |-> [emptyHidden  |-> Len(products) > 0,
                footerHidden |-> Len(products) = 0,
                items        |-> SummaryItems(products),
                total        |-> formatMoney(Total(products))],
   label   |-> IF ItemCount(products) > 0 THEN CountLabel(ItemCount(products))
                                          ELSE MarkupLabel]

\* C29: in every reachable state with no submission in flight and no timer
\* pending, the summary and the label of the control are the ones the store
\* alone determines, whatever operations and submissions led to the state.
C29_Original ==
  (subs = <<>> /\ timers = <<>> /\ ~button.disabled) =>
    [summary |-> summary, label |-> button.textContent] = Projection(selectedProducts)

\* the last operation named something that is not there: a model or a group
\* that the catalog does not hold, a card of no variant of the catalog, a
\* quantity change or a removal of an id that had no entry
InvalidTarget ==
  \/ last.op = "selectModel" /\ last.arg.value \notin ModelHandles
  \/ last.op = "toggleAccessoryGroup" /\ last.arg.value \notin AccessoryHandles
  \/ last.op = "toggleEntry" /\ \A v \in AllVariants : v.id # last.arg.id
  \/ /\ last.op \in {"changeQuantity", "remove"}
     /\ ~Has(last.pre.selectedProducts, last.arg.id)

\* C30: after an operation with an invalid target the store (active model,
\* active groups, entries) is what it was before the operation.
C30_Original ==
  InvalidTarget =>
    /\ activeHarnessModel = last.pre.activeHarnessModel
    /\ activeAccessories = last.pre.activeAccessories
    /\ selectedProducts = last.pre.selectedProducts

\* the ids of a sequence of entries with their quantities, in store order
IdsOf(products) == [i \in 1..Len(products) |-> products[i].id]

MalformedKind ==
  IF \A i \in 1..Len(Kinds) : data[Kinds[i]] # <<>> THEN ""
  ELSE Kinds[CHOOSE i \in 1..Len(Kinds) :
               /\ data[Kinds[i]] = <<>>
               /\ \A j \in 1..(i - 1) : data[Kinds[j]] # <<>>]

\* the kind of the ids the last operation named
KindOfTarget ==
  IF last.op = "selectModel" THEN "harnessModels"
  ELSE IF last.op = "toggleAccessoryGroup" THEN "harnessAccessories"
  ELSE IF last.op \in {"toggleEntry", "changeQuantity", "remove"}
    THEN LET types == {c.productType : c \in {v \in PageVariants :
                                               v.variantId = last.arg.id}}
         IN  IF "harness-model" \in types THEN "harnessTypes"
             ELSE IF "harness-accessory" \in types THEN "harnessAccessories"
             ELSE IF "accessory" \in types THEN "accessories"
             ELSE ""
  ELSE ""

\* C32: when one JSON element is malformed the widget still mounts, with
\* nothing of that kind in its data and an empty store, and every later
\* operation on an id of that kind leaves the store as it was.
C32_Original ==
  /\ (last.op = "connectedCallback" /\ last.arg.value # "")
       => /\ data[last.arg.value] = <<>>
          /\ activeHarnessModel = Null
          /\ activeAccessories = {}
          /\ selectedProducts = <<>>
  /\ (MalformedKind # "" /\ KindOfTarget = MalformedKind)
       => /\ activeHarnessModel = last.pre.activeHarnessModel
          /\ activeAccessories = last.pre.activeAccessories
          /\ selectedProducts = last.pre.selectedProducts

\* how often a payload occurs in a sequence of payloads
Count(payloads, p) == Cardinality({i \in 1..Len(payloads) : payloads[i] = p})

\* C33: when the add request succeeded and the cart read that follows
\* fails, the task dispatches no cart:update, leaves the store as it was and
\* sets the timer of 2500; the control stays disabled, with no submission in
\* flight, while that timer is pending, so the next submission comes after
\* it; that submission sends the items of the store again; and no payload
\* has been reported as added (cart:update dispatched) more often than the
\* shop accepted it.
C33_AtLeastOnce ==
  /\ (last.op = "cartSettled" /\ ~WentOn) =>
       /\ "cart:update" \notin OutKinds
       /\ activeHarnessModel = last.pre.activeHarnessModel
       /\ activeAccessories = last.pre.activeAccessories
       /\ selectedProducts = last.pre.selectedProducts
       /\ Len(last.out) = 1
       /\ last.out[1].kind = "setTimeout"
       /\ last.out[1].delay = FailedDelay
       /\ Len(last.accepted.adds) > Len(last.accepted.done)
  /\ FailedPending # {} => button.disabled /\ subs = <<>>
  /\ (last.op = "submit" /\ "POST cart/add.js" \in OutKinds) =>
       last.out[1].items = Pairs(last.pre.selectedProducts)
  /\ \A p \in Range(last.accepted.done) :
       Count(last.accepted.done, p) <= Count(last.accepted.adds, p)

\* a submission is reported as added while the shop has accepted the same
\* items twice: the first add was accepted and its cart read failed
C33_Witness ==
  /\ SuccessStep
  /\ last.accepted.adds = << <<[id |-> 31, quantity |-> 2]>>,
                             <<[id |-> 31, quantity |-> 2]>> >>
  /\ last.accepted.done = << <<[id |-> 31, quantity |-> 2]>> >>
  /\ selectedProducts = <<>>

\* the ids of the variants of the harness types linked to a model
ModelVariantIds(model) ==
  UNION { {v.id : v \in Range(ht.variants)} :
            ht \in {t \in Range(data.harnessTypes) : model \in t.modelHandles} }

\* C34: in every reachable state each entry of role harness-accessory is a
\* variant of a group that is active, and each entry of role harness-model
\* is a variant of a harness type linked to the active model; neither kind
\* is in the store while no model is active.
C34_EntriesBelong ==
  \A i \in 1..Len(selectedProducts) :
    LET entry == selectedProducts[i]
    IN  /\ entry.productType = "harness-accessory" =>
              /\ activeHarnessModel # Null
              /\ \E handle \in activeAccessories :
                   entry.id \in GroupVariantIds(handle)
        /\ entry.productType = "harness-model" =>
              /\ activeHarnessModel # Null
              /\ entry.id \in ModelVariantIds(activeHarnessModel)

C34_Witness ==
  /\ last.op = "toggleEntry"
  /\ activeHarnessModel = "M1"
  /\ activeAccessories = {"G1"}
  /\ IdsOf(selectedProducts) = <<31, 21, 11>>

\* C35: every entry that the clear of a successful submission removes from
\* the store was an item of the payload of that submission, with the
\* quantity it had in the store when it was removed.
C35_Original ==
  (SuccessStep /\ last.accepted.on) =>
    LET payload == last.accepted.done[Len(last.accepted.done)]
        before  == last.pre.selectedProducts
    IN  \A i \in 1..Len(before) :
          before[i] \notin Range(selectedProducts) =>
            [id |-> before[i].id, quantity |-> before[i].quantity]
              \in Range(payload)

\* the labels the catch block can show
ErrorLabels ==
  {ErrorText(NetworkError.message), ErrorText(ParseError.message)}
    \cup {ErrorText(Thrown(m)) : m \in ErrorFields}

\* C36: in every reachable state, while a submission is in flight the
\* control reads 'Adding...', and while the timer of a failed submission is
\* pending it reads the error text.
C36_Original ==
  /\ subs # <<>> => button.textContent = Label("Adding...")
  /\ (subs = <<>> /\ FailedPending # {}) => button.textContent \in ErrorLabels

\* C37: in every reachable state with no submission in flight, no timer
\* pending and the control enabled, the control reads the base label when
\* the item count is 0 and the count label of the current item count
\* otherwise.
C37_Original ==
  (subs = <<>> /\ timers = <<>> /\ ~button.disabled) =>
    button.textContent =
      IF ItemCount(selectedProducts) = 0
        THEN MarkupLabel
        ELSE CountLabel(ItemCount(selectedProducts))

\* C38: in every reachable state the accessory chips marked selected are
\* the active groups, and a toggleAccessoryGroup call has added its group
\* when the group was not active and removed it when it was.
C38_ChipsAreGroups ==
  /\ accessoryChips = activeAccessories
  /\ last.op = "toggleAccessoryGroup" =>
       LET handle == last.arg.value
       IN  /\ handle \in activeAccessories
             <=> handle \notin last.pre.activeAccessories
           /\ activeAccessories \ {handle} = last.pre.activeAccessories \ {handle}

C38_Witness ==
  /\ last.op = "selectModel"
  /\ last.arg.value = "M2"
  /\ last.pre.activeAccessories = {"G1", "G2"}
  /\ accessoryChips = {}
  /\ activeAccessories = {}

\* the entries of a store other than the one of variantId, in store order
Others(products, variantId) == SelectSeq(products, LAMBDA p : p.id # variantId)

\* C39: a toggleEntry, changeQuantity or remove call leaves the active
\* model, the active groups and every entry other than the one its id names
\* as they were, in the order they were.
C39_OneEntryTouched ==
  last.op \in {"toggleEntry", "changeQuantity", "remove"} =>
    /\ activeHarnessModel = last.pre.activeHarnessModel
    /\ activeAccessories = last.pre.activeAccessories
    /\ Others(selectedProducts, last.arg.id)
         = Others(last.pre.selectedProducts, last.arg.id)

C39_Witness ==
  /\ last.op = "remove"
  /\ last.arg.id = 21
  /\ activeHarnessModel = "M1"
  /\ activeAccessories = {"G1"}
  /\ IdsOf(last.pre.selectedProducts) = <<31, 21, 11, 32>>
  /\ last.pre.selectedProducts[1].quantity = 2
  /\ selectedProducts = Others(last.pre.selectedProducts, 21)
=============================================================================
